---- MODULE Spec2Model ----
(***************************************************************************)
(* Binary serialization core of rscdk (crates/chain/src/structs.rs), and   *)
(* the test client's global state (crates/chaintester/src/client.rs).      *)
(*                                                                         *)
(* Every Packer implementation of structs.rs is an operator triple         *)
(* T_size / T_pack / T_unpack computed the way the Rust code computes it:  *)
(*   T_size(x)          the number returned by x.size()                    *)
(*   T_pack(x, enc)     [enc, ret]: the encoder after x.pack(&mut enc) and *)
(*                      the usize that pack returns                        *)
(*   T_unpack(self, raw) [ok, self, n]: whether unpack returned (ok) or    *)
(*                      aborted in check(), the value self holds at that   *)
(*                      moment, and the usize that unpack returns          *)
(* A byte is a number in 0..255; a buffer is a sequence of bytes.          *)
(* u16 is a number; u32, u64 and u128 are little-endian sequences of       *)
(* 16-bit limbs (2, 4 and 8 limbs), so that every byte of the wire image   *)
(* can be non-zero without leaving TLC's integer range.                    *)
(***************************************************************************)
EXTENDS Integers, Sequences, FiniteSets, TLC

VARIABLES
    op,      \* the last operation: "init", "from_hex", "swap", "let", "pack", "unpack"
    ty,      \* the Packer type of the current object
    obj,     \* the current object (self of size / pack; what unpack left in self)
    alive,   \* FALSE once check() has aborted the run
    enc,     \* the encoder's buffer
    pos0,    \* the encoder's length before the last pack
    ret,     \* the usize returned by the last pack
    packed,  \* [t, x]: the type and the object of the last pack
    prev,    \* the pack before the last one: [t, x, seg] type, object, bytes appended
    npacks,  \* pack calls made into the encoder
    inbuf,   \* the input of the last from_hex (its string) or unpack (its buffer)
    self0,   \* self as it was before the last unpack
    res,     \* the last unpack's outcome [ok, self, n]
    rounds,  \* unpack calls made in this run
    thr,       \* client.rs: per thread, where it stands in which ChainTester call
    client,    \* CHAIN_TESTER_CLIENT.client: "None" or "Some"
    vm,        \* VM_API_CLIENT: [vm_api_client, in_apply]
    applys,    \* CHAIN_TESTER_APPLYS: per chain id, whether it has an entry and its map
    poisoned,  \* the mutexes a panicking thread held a guard of
    testers,   \* the ChainTester values handed out, per chain id
    opens,     \* connections opened since the last close, per client
    chains,    \* chain ids the server has handed out
    result     \* the last Result<Value> a call returned, with the reply it came from

\* The state of a pack / unpack run (crates/chain/src/structs.rs).
pvars == <<op, ty, obj, alive, enc, pos0, ret, packed, prev, npacks, inbuf, self0, res, rounds>>

\* The state of the test client (crates/chaintester/src/client.rs).
cvars == <<thr, client, vm, applys, poisoned, testers, opens, chains, result>>

vars == <<pvars, cvars>>

----------------------------------------------------------------------------
(* Bounds of the model *)

MaxKeys == 2        \* longest key list of a BlockSigningAuthorityV0 drawn as input
MaxRounds == 1      \* unpack calls per run
MaxPacks == 2       \* pack calls into one encoder (SpecEnc)
MaxTrail == 2       \* bytes of trailing data appended after a packed value

----------------------------------------------------------------------------
(* Buffers *)

Zeros(n) == [i \in 1..n |-> 0]

Fill(n, b) == [i \in 1..n |-> b]

Ramp(n, a) == [i \in 1..n |-> (a + i) % 256]

Take(s, n) == SubSeq(s, 1, IF n < Len(s) THEN n ELSE Len(s))

Drop(s, n) == SubSeq(s, n + 1, Len(s))

----------------------------------------------------------------------------
(* vmapi::eosio::check and slice_copy, serializer::Encoder and Decoder *)

\* The outcome of an unpack that check() aborted: self is what it held then.
Abort(self) == [ok |-> FALSE, self |-> self, n |-> 0]

Done(self, n) == [ok |-> TRUE, self |-> self, n |-> n]

\* slice_copy(dst, src): dst becomes src; the lengths must agree.
slice_copy(dst, src) == IF Len(dst) = Len(src) THEN src ELSE dst

Encoder_new == <<>>

Encoder_get_size(e) == Len(e)

\* alloc(n): n zero bytes at the current end of the buffer.
Encoder_alloc(e, n) == e \o Zeros(n)

\* The caller fills the region of n bytes that alloc handed out at offset at.
Encoder_fill(e, at, src) ==
    [i \in 1..Len(e) |-> IF i > at /\ i <= at + Len(src) THEN src[i - at] ELSE e[i]]

\* let data = enc.alloc(n); slice_copy(data, src);
AllocCopy(e, n, src) ==
    LET at == Encoder_get_size(e)
        e1 == Encoder_alloc(e, n)
    IN Encoder_fill(e1, at, slice_copy(SubSeq(e1, at + 1, at + n), src))

Decoder_new(data) == [buf |-> data, pos |-> 0, ok |-> TRUE, vals |-> <<>>]

\* pos += size, with the value the callee left in v pushed on vals.
Decoder_advance(dec, r) ==
    [buf |-> dec.buf, pos |-> dec.pos + r.n, ok |-> r.ok, vals |-> Append(dec.vals, r.self)]

\* dec.unpack(&mut v): v.unpack(&buf[pos..]); pos += size. After an abort nothing
\* runs: v stays as it is.
Decoder_unpack(dec, U(_, _), v) ==
    IF ~dec.ok THEN [dec EXCEPT !.vals = Append(dec.vals, v)]
    ELSE Decoder_advance(dec, U(v, Drop(dec.buf, dec.pos)))

Decoder_get_pos(dec) == dec.pos

\* return dec.get_pos(); reached only when no check() aborted.
Return(dec, self) == IF dec.ok THEN Done(self, Decoder_get_pos(dec)) ELSE Abort(self)

\* enc.get_size() - pos
PackResult(e, pos) == [enc |-> e, ret |-> Encoder_get_size(e) - pos]

----------------------------------------------------------------------------
(* Fixed-width integers: natural little-endian byte width *)

LimbBytes(l) == <<l % 256, l \div 256>>

RECURSIVE LimbsToBytes(_)
LimbsToBytes(ls) == IF ls = <<>> THEN <<>> ELSE LimbBytes(Head(ls)) \o LimbsToBytes(Tail(ls))

BytesToLimbs(bs) == [i \in 1..(Len(bs) \div 2) |-> bs[2 * i - 1] + 256 * bs[2 * i]]

u8_pack(v, e) == [enc |-> AllocCopy(e, 1, <<v>>), ret |-> 1]

u8_unpack(self, data) ==
    IF Len(data) < 1 THEN Abort(self) ELSE Done(data[1], 1)

u16_pack(v, e) == [enc |-> AllocCopy(e, 2, LimbBytes(v)), ret |-> 2]

u16_unpack(self, data) ==
    IF Len(data) < 2 THEN Abort(self) ELSE Done(data[1] + 256 * data[2], 2)

\* u32, u64, u128: w is the width in bytes.
uint_pack(v, w, e) == [enc |-> AllocCopy(e, w, LimbsToBytes(v)), ret |-> w]

uint_unpack(self, w, data) ==
    IF Len(data) < w THEN Abort(self) ELSE Done(BytesToLimbs(Take(data, w)), w)

u32_pack(v, e) == uint_pack(v, 4, e)

u32_unpack(self, data) == uint_unpack(self, 4, data)

u64_pack(v, e) == uint_pack(v, 8, e)

u64_unpack(self, data) == uint_unpack(self, 8, data)

u128_pack(v, e) == uint_pack(v, 16, e)

u128_unpack(self, data) == uint_unpack(self, 16, data)

----------------------------------------------------------------------------
(* utils::decode_hex: two hex characters per byte *)

HexDigits == <<"0", "1", "2", "3", "4", "5", "6", "7", "8", "9", "a", "b", "c", "d", "e", "f">>

HexVal(c) == (CHOOSE i \in 1..16 : HexDigits[i] = c) - 1

decode_hex(s) == [i \in 1..(Len(s) \div 2) |-> 16 * HexVal(s[2 * i - 1]) + HexVal(s[2 * i])]

----------------------------------------------------------------------------
(* Fixed-size byte arrays: Float128, Checksum160/256/512, ECCPublicKey *)

Float128_default == [data |-> Zeros(16)]

Float128_size(self) == 16

\* Mutant: the encoder is padded to the type's 8-byte alignment first.
Float128_pack_Aligned(self, e) ==
    [enc |-> AllocCopy(e \o Zeros((8 - (Len(e) % 8)) % 8), Float128_size(self), self.data),
     ret |-> Float128_size(self)]

Float128_pack(self, e) ==
    [enc |-> AllocCopy(e, Float128_size(self), self.data), ret |-> Float128_size(self)]

Float128_unpack(self, raw) ==
    LET size == Float128_size(self)
    IN IF ~(Len(raw) >= size) THEN Abort(self)
       ELSE Done([self EXCEPT !.data = slice_copy(self.data, Take(raw, size))], Float128_size(self))

Checksum160_default == [data |-> Zeros(20)]

Checksum160_from_hex(s) ==
    IF ~(Len(s) = 40) THEN Abort(Checksum160_default)
    ELSE Done([data |-> slice_copy(Checksum160_default.data, decode_hex(s))], 0)

Checksum160_size(self) == 20

Checksum160_pack(self, e) ==
    [enc |-> AllocCopy(e, Checksum160_size(self), self.data), ret |-> Checksum160_size(self)]

Checksum160_unpack(self, raw) ==
    LET size == Checksum160_size(self)
    IN IF ~(Len(raw) >= size) THEN Abort(self)
       ELSE Done([self EXCEPT !.data = slice_copy(self.data, Take(raw, size))], size)

Checksum256_default == [data |-> Zeros(32)]

\* Mutant: the length check accepts any string of at least 64 characters.
Checksum256_from_hex_AtLeast(s) ==
    IF ~(Len(s) >= 64) THEN Abort(Checksum256_default)
    ELSE Done([data |-> Take(decode_hex(s), 32)], 0)

Checksum256_from_hex(s) ==
    IF ~(Len(s) = 64) THEN Abort(Checksum256_default)
    ELSE Done([data |-> slice_copy(Checksum256_default.data, decode_hex(s))], 0)

Checksum256_size(self) == 32

Checksum256_pack(self, e) ==
    [enc |-> AllocCopy(e, Checksum256_size(self), self.data), ret |-> Checksum256_size(self)]

Checksum256_unpack(self, raw) ==
    LET size == Checksum256_size(self)
    IN IF ~(Len(raw) >= size) THEN Abort(self)
       ELSE Done([self EXCEPT !.data = slice_copy(self.data, Take(raw, size))], Checksum256_size(self))

Checksum512_default == [data |-> Zeros(64)]

Checksum512_from_hex(s) ==
    IF ~(Len(s) = 128) THEN Abort(Checksum512_default)
    ELSE Done([data |-> slice_copy(Checksum512_default.data, decode_hex(s))], 0)

Checksum512_size(self) == 64

Checksum512_pack(self, e) ==
    [enc |-> AllocCopy(e, Checksum512_size(self), self.data), ret |-> Checksum512_size(self)]

Checksum512_unpack(self, raw) ==
    LET size == Checksum512_size(self)
    IN IF ~(Len(raw) >= size) THEN Abort(self)
       ELSE Done([self EXCEPT !.data = slice_copy(self.data, Take(raw, size))], size)

ECCPublicKey_default == [data |-> Zeros(33)]

ECCPublicKey_from_hex(s) ==
    IF ~(Len(s) = 33 * 2) THEN Abort(ECCPublicKey_default)
    ELSE Done([data |-> slice_copy(ECCPublicKey_default.data, decode_hex(s))], 0)

ECCPublicKey_size(self) == 33

ECCPublicKey_pack(self, e) ==
    [enc |-> AllocCopy(e, ECCPublicKey_size(self), self.data), ret |-> ECCPublicKey_size(self)]

ECCPublicKey_unpack(self, raw) ==
    LET size == ECCPublicKey_size(self)
    IN IF ~(Len(raw) >= size) THEN Abort(self)
       ELSE Done([self EXCEPT !.data = slice_copy(self.data, Take(raw, size))], size)

----------------------------------------------------------------------------
(* varint::VarUint32, String and name::Name (their own Packer contracts) *)

RECURSIVE VarUint32_size(_)
VarUint32_size(n) == IF n < 128 THEN 1 ELSE 1 + VarUint32_size(n \div 128)

RECURSIVE VarUint32_bytes(_)
VarUint32_bytes(n) ==
    IF n < 128 THEN <<n>> ELSE <<128 + (n % 128)>> \o VarUint32_bytes(n \div 128)

VarUint32_pack(n, e) ==
    PackResult(AllocCopy(e, VarUint32_size(n), VarUint32_bytes(n)), Encoder_get_size(e))

\* Decodes 7 bits per byte until a byte without the continuation bit; a buffer
\* that ends before that byte is rejected.
RECURSIVE VarUint32_decode(_, _, _, _, _)
VarUint32_decode(self, data, i, mul, acc) ==
    IF i > Len(data) \/ i > 5 THEN Abort(self)
    ELSE IF data[i] < 128 THEN Done(acc + mul * data[i], i)
    ELSE VarUint32_decode(self, data, i + 1, IF i < 4 THEN mul * 128 ELSE 0,
                          acc + mul * (data[i] % 128))

VarUint32_unpack(self, data) == VarUint32_decode(self, data, 1, 1, 0)

String_size(self) == VarUint32_size(Len(self)) + Len(self)

String_pack(self, e) ==
    PackResult(AllocCopy(VarUint32_pack(Len(self), e).enc, Len(self), self),
               Encoder_get_size(e))

\* l is the decoded length prefix.
String_body(self, data, l) ==
    IF ~l.ok THEN Abort(self)
    ELSE IF Len(data) < l.n + l.self THEN Abort(self)
    ELSE Done(SubSeq(data, l.n + 1, l.n + l.self), l.n + l.self)

String_unpack(self, data) == String_body(self, data, VarUint32_unpack(0, data))

Name_default == [n |-> <<0, 0, 0, 0>>]

Name_size(self) == 8

Name_pack(self, e) == u64_pack(self.n, e)

\* The field f of self is the integer that r decoded.
IntoField(self, f, r) ==
    IF r.ok THEN Done([self EXCEPT ![f] = r.self], r.n) ELSE Abort(self)

Name_unpack(self, raw) == IntoField(self, "n", u64_unpack(self.n, raw))

----------------------------------------------------------------------------
(* UserPresence and WebAuthNPublicKey *)

UserPresence_default == "None"

\* *self as u8
UserPresence_as_u8(self) ==
    CASE self = "None" -> 0
      [] self = "Present" -> 1
      [] self = "Verified" -> 2

UserPresence_size(self) == 1

UserPresence_pack(self, e) == u8_pack(UserPresence_as_u8(self), e)

\* Mutant: no length check; the byte behind an empty buffer reads as 0.
UserPresence_unpack_NoLengthCheck(self, data) ==
    CASE Len(data) >= 1 /\ data[1] = 1 -> Done("Present", 1)
      [] Len(data) >= 1 /\ data[1] = 2 -> Done("Verified", 1)
      [] Len(data) >= 1 /\ data[1] > 2 -> Abort(self)
      [] OTHER -> Done("None", 1)

UserPresence_unpack(self, data) ==
    IF ~(Len(data) >= 1) THEN Abort(self)
    ELSE CASE data[1] = 0 -> Done("None", 1)
           [] data[1] = 1 -> Done("Present", 1)
           [] data[1] = 2 -> Done("Verified", 1)
           [] OTHER -> Abort(self)

WebAuthNPublicKey_default ==
    [key |-> ECCPublicKey_default, user_presence |-> UserPresence_default, rpid |-> <<>>]

WebAuthNPublicKey_size(self) ==
    ECCPublicKey_size(self.key) + UserPresence_size(self.user_presence) + String_size(self.rpid)

\* Mutant: the presence byte is written before the key.
WebAuthNPublicKey_pack_PresenceFirst(self, e) ==
    LET pos == Encoder_get_size(e)
        e1 == UserPresence_pack(self.user_presence, e).enc
        e2 == ECCPublicKey_pack(self.key, e1).enc
        e3 == String_pack(self.rpid, e2).enc
    IN PackResult(e3, pos)

WebAuthNPublicKey_pack(self, e) ==
    LET pos == Encoder_get_size(e)
        e1 == ECCPublicKey_pack(self.key, e).enc
        e2 == UserPresence_pack(self.user_presence, e1).enc
        e3 == String_pack(self.rpid, e2).enc
    IN PackResult(e3, pos)

\* The fields as the three dec.unpack calls left them.
WebAuthNPublicKey_fields(dec) ==
    Return(dec, [key |-> dec.vals[1], user_presence |-> dec.vals[2], rpid |-> dec.vals[3]])

WebAuthNPublicKey_unpack(self, data) ==
    IF ~(Len(data) >= 33) THEN Abort(self)
    ELSE LET d0 == Decoder_new(data)
             d1 == Decoder_unpack(d0, ECCPublicKey_unpack, self.key)
             d2 == Decoder_unpack(d1, UserPresence_unpack, self.user_presence)
             d3 == Decoder_unpack(d2, String_unpack, self.rpid)
         IN WebAuthNPublicKey_fields(d3)

----------------------------------------------------------------------------
(* PublicKey: tag 0 = K1, 1 = R1, 2 = WebAuth *)

PublicKey_K1(x) == [tag |-> "K1", v |-> x]

PublicKey_R1(x) == [tag |-> "R1", v |-> x]

PublicKey_WebAuth(x) == [tag |-> "WebAuth", v |-> x]

PublicKey_default == PublicKey_K1(ECCPublicKey_default)

PublicKey_size(self) ==
    CASE self.tag = "K1" -> ECCPublicKey_size(self.v) + 1
      [] self.tag = "R1" -> ECCPublicKey_size(self.v) + 1
      [] self.tag = "WebAuth" -> WebAuthNPublicKey_size(self.v) + 1

\* Mutant: the R1 arm writes discriminant 0.
PublicKey_pack_R1Tag0(self, e) ==
    PackResult(
        CASE self.tag = "K1" -> ECCPublicKey_pack(self.v, u8_pack(0, e).enc).enc
          [] self.tag = "R1" -> ECCPublicKey_pack(self.v, u8_pack(0, e).enc).enc
          [] self.tag = "WebAuth" -> WebAuthNPublicKey_pack(self.v, u8_pack(2, e).enc).enc,
        Encoder_get_size(e))

PublicKey_pack(self, e) ==
    PackResult(
        CASE self.tag = "K1" -> ECCPublicKey_pack(self.v, u8_pack(0, e).enc).enc
          [] self.tag = "R1" -> ECCPublicKey_pack(self.v, u8_pack(1, e).enc).enc
          [] self.tag = "WebAuth" -> WebAuthNPublicKey_pack(self.v, u8_pack(2, e).enc).enc,
        Encoder_get_size(e))

\* Mutant: the decoded payload is stored under the variant self already held.
PublicKey_assign_KeepVariant(self, variant, dec) ==
    Return(dec, IF dec.ok /\ (self.tag = "WebAuth") = (variant = "WebAuth")
                THEN [tag |-> self.tag, v |-> dec.vals[2]]
                ELSE IF dec.ok THEN [tag |-> variant, v |-> dec.vals[2]] ELSE self)

\* *self = PublicKey::<variant>(pub_key); return dec.get_pos();
PublicKey_assign(self, variant, dec) ==
    Return(dec, IF dec.ok THEN [tag |-> variant, v |-> dec.vals[2]] ELSE self)

\* Mutant: the arm for tag 1 builds a K1 key.
PublicKey_match_R1AsK1(self, dec) ==
    IF ~dec.ok THEN Abort(self)
    ELSE CASE dec.vals[1] \in {0, 1} ->
                PublicKey_assign(self, "K1",
                    Decoder_unpack(dec, ECCPublicKey_unpack, ECCPublicKey_default))
           [] dec.vals[1] = 2 ->
                PublicKey_assign(self, "WebAuth",
                    Decoder_unpack(dec, WebAuthNPublicKey_unpack, WebAuthNPublicKey_default))
           [] OTHER -> Abort(self)

\* Mutant: an unknown tag is decoded as a K1 key.
PublicKey_match_UnknownAsK1(self, dec) ==
    IF ~dec.ok THEN Abort(self)
    ELSE CASE dec.vals[1] = 1 ->
                PublicKey_assign(self, "R1",
                    Decoder_unpack(dec, ECCPublicKey_unpack, ECCPublicKey_default))
           [] dec.vals[1] = 2 ->
                PublicKey_assign(self, "WebAuth",
                    Decoder_unpack(dec, WebAuthNPublicKey_unpack, WebAuthNPublicKey_default))
           [] OTHER ->
                PublicKey_assign(self, "K1",
                    Decoder_unpack(dec, ECCPublicKey_unpack, ECCPublicKey_default))

\* match ty { 0 => .., 1 => .., 2 => .., _ => check(false, ..) } on the decoded tag
PublicKey_match(self, dec) ==
    IF ~dec.ok THEN Abort(self)
    ELSE CASE dec.vals[1] = 0 ->
                PublicKey_assign(self, "K1",
                    Decoder_unpack(dec, ECCPublicKey_unpack, ECCPublicKey_default))
           [] dec.vals[1] = 1 ->
                PublicKey_assign(self, "R1",
                    Decoder_unpack(dec, ECCPublicKey_unpack, ECCPublicKey_default))
           [] dec.vals[1] = 2 ->
                PublicKey_assign(self, "WebAuth",
                    Decoder_unpack(dec, WebAuthNPublicKey_unpack, WebAuthNPublicKey_default))
           [] OTHER -> Abort(self)

PublicKey_unpack(self, raw) ==
    IF ~(Len(raw) >= 34) THEN Abort(self)
    ELSE PublicKey_match(self, Decoder_unpack(Decoder_new(raw), u8_unpack, 0))

----------------------------------------------------------------------------
(* Signature: 1-byte type (must be 0) + 65 raw bytes *)

Signature_default == [ty |-> 0, data |-> Zeros(65)]

Signature_from_hex(s) ==
    IF ~(Len(s) = 65 * 2) THEN Abort(Signature_default)
    ELSE Done([ty |-> 0, data |-> slice_copy(Signature_default.data, decode_hex(s))], 0)

Signature_size(self) == 66

Signature_pack(self, e) ==
    [enc |-> AllocCopy(u8_pack(self.ty, e).enc, Len(self.data), self.data),
     ret |-> Signature_size(self)]

\* Mutant: the type byte is stored and not checked.
Signature_unpack_NoTypeCheck(self, data) ==
    IF ~(Len(data) >= Signature_size(self)) THEN Abort(self)
    ELSE Done([ty |-> data[1],
               data |-> slice_copy(self.data, SubSeq(data, 2, Signature_size(self)))],
              Signature_size(self))

Signature_unpack(self, data) ==
    IF ~(Len(data) >= Signature_size(self)) THEN Abort(self)
    ELSE IF ~(data[1] = 0) THEN Abort([self EXCEPT !.ty = data[1]])
    ELSE Done([ty |-> data[1],
               data |-> slice_copy(self.data, SubSeq(data, 2, Signature_size(self)))],
              Signature_size(self))

----------------------------------------------------------------------------
(* Uint256: two 128-bit limbs, data[0] (lo) then data[1] (hi) *)

Uint256_default == [data |-> <<Zeros(8), Zeros(8)>>]

Uint256_new(lo, hi) == [data |-> <<lo, hi>>]

\* Mutant: both limbs of the result are the high limb of self.
Uint256_swap_DupHi(self) == [data |-> <<self.data[2], self.data[2]>>]

Uint256_swap(self) == [data |-> <<self.data[2], self.data[1]>>]

Uint256_size(self) == 32

Uint256_pack(self, e) ==
    [enc |-> u128_pack(self.data[2], u128_pack(self.data[1], e).enc).enc,
     ret |-> Uint256_size(self)]

Uint256_fields(dec) == Return(dec, [data |-> <<dec.vals[1], dec.vals[2]>>])

Uint256_unpack(self, data) ==
    LET d0 == Decoder_new(data)
        d1 == Decoder_unpack(d0, u128_unpack, self.data[1])
        d2 == Decoder_unpack(d1, u128_unpack, self.data[2])
    IN Uint256_fields(d2)

----------------------------------------------------------------------------
(* TimePoint, TimePointSec, BlockTimeStampType *)

TimePoint_default == [elapsed |-> Zeros(4)]

TimePoint_size(self) == 8

TimePoint_pack(self, e) == u64_pack(self.elapsed, e)

TimePoint_unpack(self, raw) ==
    IF ~(Len(raw) >= TimePoint_size(self)) THEN Abort(self)
    ELSE IntoField(self, "elapsed", u64_unpack(self.elapsed, raw))

TimePointSec_default == [seconds |-> Zeros(2)]

TimePointSec_size(self) == 4

TimePointSec_pack(self, e) == u32_pack(self.seconds, e)

TimePointSec_unpack(self, raw) ==
    IF ~(Len(raw) >= TimePointSec_size(self)) THEN Abort(self)
    ELSE IntoField(self, "seconds", u32_unpack(self.seconds, raw))

BlockTimeStampType_default == [slot |-> Zeros(2)]

BlockTimeStampType_size(self) == 4

BlockTimeStampType_pack(self, e) == u32_pack(self.slot, e)

BlockTimeStampType_unpack(self, raw) ==
    IF ~(Len(raw) >= BlockTimeStampType_size(self)) THEN Abort(self)
    ELSE IntoField(self, "slot", u32_unpack(self.slot, raw))

----------------------------------------------------------------------------
(* ProducerKey = name, key; KeyWeight = key, weight *)

ProducerKey_new(producer_name, block_signing_key) ==
    [producer_name |-> producer_name, block_signing_key |-> block_signing_key]

ProducerKey_default == ProducerKey_new(Name_default, PublicKey_default)

ProducerKey_size(self) == 8 + PublicKey_size(self.block_signing_key)

\* Mutant: the fields are written from the start of the buffer.
ProducerKey_pack_Rewind(self, e) ==
    LET e1 == Name_pack(self.producer_name, Encoder_new).enc
        e2 == PublicKey_pack(self.block_signing_key, e1).enc
    IN PackResult(e2, 0)

ProducerKey_pack(self, e) ==
    LET pos == Encoder_get_size(e)
        e1 == Name_pack(self.producer_name, e).enc
        e2 == PublicKey_pack(self.block_signing_key, e1).enc
    IN PackResult(e2, pos)

ProducerKey_fields(dec) ==
    Return(dec, [producer_name |-> dec.vals[1], block_signing_key |-> dec.vals[2]])

ProducerKey_unpack(self, raw) ==
    LET d0 == Decoder_new(raw)
        d1 == Decoder_unpack(d0, Name_unpack, self.producer_name)
        d2 == Decoder_unpack(d1, PublicKey_unpack, self.block_signing_key)
    IN ProducerKey_fields(d2)

KeyWeight_default == [key |-> PublicKey_default, weight |-> 0]

KeyWeight_size(self) == 2 + PublicKey_size(self.key)

\* Mutant: the weight is written before the key.
KeyWeight_pack_WeightFirst(self, e) ==
    LET pos == Encoder_get_size(e)
        e1 == u16_pack(self.weight, e).enc
        e2 == PublicKey_pack(self.key, e1).enc
    IN PackResult(e2, pos)

KeyWeight_pack(self, e) ==
    LET pos == Encoder_get_size(e)
        e1 == PublicKey_pack(self.key, e).enc
        e2 == u16_pack(self.weight, e1).enc
    IN PackResult(e2, pos)

KeyWeight_fields(dec) == Return(dec, [key |-> dec.vals[1], weight |-> dec.vals[2]])

KeyWeight_unpack(self, raw) ==
    LET d0 == Decoder_new(raw)
        d1 == Decoder_unpack(d0, PublicKey_unpack, self.key)
        d2 == Decoder_unpack(d1, u16_unpack, self.weight)
    IN KeyWeight_fields(d2)

----------------------------------------------------------------------------
(* Vec<KeyWeight>: VarUint32 count, then the elements back to back *)

RECURSIVE SumKeySizes(_)
SumKeySizes(keys) ==
    IF keys = <<>> THEN 0 ELSE KeyWeight_size(Head(keys)) + SumKeySizes(Tail(keys))

RECURSIVE PackKeys(_, _)
PackKeys(keys, e) ==
    IF keys = <<>> THEN e ELSE PackKeys(Tail(keys), KeyWeight_pack(Head(keys), e).enc)

VecKeyWeight_pack(self, e) ==
    PackResult(PackKeys(self, VarUint32_pack(Len(self), e).enc), Encoder_get_size(e))

\* for _ in 0..count { let mut v = T::default(); dec.unpack(&mut v); self.push(v) }
RECURSIVE UnpackKeys(_, _)
UnpackKeys(dec, count) ==
    IF count = 0 \/ ~dec.ok THEN dec
    ELSE UnpackKeys(Decoder_unpack(dec, KeyWeight_unpack, KeyWeight_default), count - 1)

\* vals[1] is the count; the elements decoded after it are the vector.
VecKeyWeight_elements(self, dec) ==
    Return(dec, IF dec.ok THEN SubSeq(dec.vals, 2, Len(dec.vals)) ELSE self)

VecKeyWeight_count(self, dec) ==
    IF ~dec.ok THEN Abort(self) ELSE VecKeyWeight_elements(self, UnpackKeys(dec, dec.vals[1]))

VecKeyWeight_unpack(self, data) ==
    VecKeyWeight_count(self, Decoder_unpack(Decoder_new(data), VarUint32_unpack, 0))

----------------------------------------------------------------------------
(* BlockSigningAuthorityV0, BlockSigningAuthority, ProducerAuthority *)

BlockSigningAuthorityV0_default == [threshold |-> Zeros(2), keys |-> <<>>]

BlockSigningAuthorityV0_size(self) ==
    2 + VarUint32_size(Len(self.keys)) + SumKeySizes(self.keys)

BlockSigningAuthorityV0_pack(self, e) ==
    LET pos == Encoder_get_size(e)
        e1 == u32_pack(self.threshold, e).enc
        e2 == VecKeyWeight_pack(self.keys, e1).enc
    IN PackResult(e2, pos)

BlockSigningAuthorityV0_fields(dec) ==
    Return(dec, [threshold |-> dec.vals[1], keys |-> dec.vals[2]])

BlockSigningAuthorityV0_unpack(self, raw) ==
    LET d0 == Decoder_new(raw)
        d1 == Decoder_unpack(d0, u32_unpack, self.threshold)
        d2 == Decoder_unpack(d1, VecKeyWeight_unpack, self.keys)
    IN BlockSigningAuthorityV0_fields(d2)

BlockSigningAuthority_V0(x) == [tag |-> "V0", v |-> x]

BlockSigningAuthority_default == BlockSigningAuthority_V0(BlockSigningAuthorityV0_default)

BlockSigningAuthority_size(self) ==
    1 + (CASE self.tag = "V0" -> BlockSigningAuthorityV0_size(self.v))

BlockSigningAuthority_pack(self, e) ==
    PackResult(
        CASE self.tag = "V0" -> BlockSigningAuthorityV0_pack(self.v, u8_pack(0, e).enc).enc,
        Encoder_get_size(e))

\* *self = BlockSigningAuthority::V0(v0); return dec.get_pos();
BlockSigningAuthority_assign(self, dec) ==
    Return(dec, IF dec.ok THEN BlockSigningAuthority_V0(dec.vals[2]) ELSE self)

\* Mutant: the tag is read and not compared.
BlockSigningAuthority_match_AnyTag(self, dec) ==
    IF ~dec.ok THEN Abort(self)
    ELSE BlockSigningAuthority_assign(self,
             Decoder_unpack(dec, BlockSigningAuthorityV0_unpack,
                            BlockSigningAuthorityV0_default))

\* if ty == 0 { .. } else { check(false, ..) } on the decoded tag
BlockSigningAuthority_match(self, dec) ==
    IF ~dec.ok THEN Abort(self)
    ELSE IF dec.vals[1] = 0
         THEN BlockSigningAuthority_assign(self,
                  Decoder_unpack(dec, BlockSigningAuthorityV0_unpack,
                                 BlockSigningAuthorityV0_default))
         ELSE Abort(self)

BlockSigningAuthority_unpack(self, raw) ==
    BlockSigningAuthority_match(self, Decoder_unpack(Decoder_new(raw), u8_unpack, 0))

ProducerAuthority_default ==
    [producer_name |-> Name_default, authority |-> BlockSigningAuthority_default]

ProducerAuthority_size(self) ==
    Name_size(self.producer_name) + BlockSigningAuthority_size(self.authority)

ProducerAuthority_pack(self, e) ==
    LET pos == Encoder_get_size(e)
        e1 == Name_pack(self.producer_name, e).enc
        e2 == BlockSigningAuthority_pack(self.authority, e1).enc
    IN PackResult(e2, pos)

ProducerAuthority_fields(dec) ==
    Return(dec, [producer_name |-> dec.vals[1], authority |-> dec.vals[2]])

ProducerAuthority_unpack(self, raw) ==
    LET d0 == Decoder_new(raw)
        d1 == Decoder_unpack(d0, Name_unpack, self.producer_name)
        d2 == Decoder_unpack(d1, BlockSigningAuthority_unpack, self.authority)
    IN ProducerAuthority_fields(d2)

----------------------------------------------------------------------------
(* The Packer trait: dispatch on the implementing type *)

FixedTypes ==
    {"Float128", "Checksum160", "Checksum256", "Checksum512", "ECCPublicKey",
     "Signature", "Uint256", "TimePoint", "TimePointSec", "BlockTimeStampType"}

Types ==
    FixedTypes \cup
    {"UserPresence", "WebAuthNPublicKey", "PublicKey", "ProducerKey", "KeyWeight",
     "BlockSigningAuthorityV0", "BlockSigningAuthority", "ProducerAuthority"}

Default(t) ==
    CASE t = "Float128" -> Float128_default
      [] t = "Checksum160" -> Checksum160_default
      [] t = "Checksum256" -> Checksum256_default
      [] t = "Checksum512" -> Checksum512_default
      [] t = "ECCPublicKey" -> ECCPublicKey_default
      [] t = "UserPresence" -> UserPresence_default
      [] t = "WebAuthNPublicKey" -> WebAuthNPublicKey_default
      [] t = "PublicKey" -> PublicKey_default
      [] t = "Signature" -> Signature_default
      [] t = "Uint256" -> Uint256_default
      [] t = "TimePoint" -> TimePoint_default
      [] t = "TimePointSec" -> TimePointSec_default
      [] t = "BlockTimeStampType" -> BlockTimeStampType_default
      [] t = "ProducerKey" -> ProducerKey_default
      [] t = "KeyWeight" -> KeyWeight_default
      [] t = "BlockSigningAuthorityV0" -> BlockSigningAuthorityV0_default
      [] t = "BlockSigningAuthority" -> BlockSigningAuthority_default
      [] t = "ProducerAuthority" -> ProducerAuthority_default

Size(t, x) ==
    CASE t = "Float128" -> Float128_size(x)
      [] t = "Checksum160" -> Checksum160_size(x)
      [] t = "Checksum256" -> Checksum256_size(x)
      [] t = "Checksum512" -> Checksum512_size(x)
      [] t = "ECCPublicKey" -> ECCPublicKey_size(x)
      [] t = "UserPresence" -> UserPresence_size(x)
      [] t = "WebAuthNPublicKey" -> WebAuthNPublicKey_size(x)
      [] t = "PublicKey" -> PublicKey_size(x)
      [] t = "Signature" -> Signature_size(x)
      [] t = "Uint256" -> Uint256_size(x)
      [] t = "TimePoint" -> TimePoint_size(x)
      [] t = "TimePointSec" -> TimePointSec_size(x)
      [] t = "BlockTimeStampType" -> BlockTimeStampType_size(x)
      [] t = "ProducerKey" -> ProducerKey_size(x)
      [] t = "KeyWeight" -> KeyWeight_size(x)
      [] t = "BlockSigningAuthorityV0" -> BlockSigningAuthorityV0_size(x)
      [] t = "BlockSigningAuthority" -> BlockSigningAuthority_size(x)
      [] t = "ProducerAuthority" -> ProducerAuthority_size(x)

Pack(t, x, e) ==
    CASE t = "Float128" -> Float128_pack(x, e)
      [] t = "Checksum160" -> Checksum160_pack(x, e)
      [] t = "Checksum256" -> Checksum256_pack(x, e)
      [] t = "Checksum512" -> Checksum512_pack(x, e)
      [] t = "ECCPublicKey" -> ECCPublicKey_pack(x, e)
      [] t = "UserPresence" -> UserPresence_pack(x, e)
      [] t = "WebAuthNPublicKey" -> WebAuthNPublicKey_pack(x, e)
      [] t = "PublicKey" -> PublicKey_pack(x, e)
      [] t = "Signature" -> Signature_pack(x, e)
      [] t = "Uint256" -> Uint256_pack(x, e)
      [] t = "TimePoint" -> TimePoint_pack(x, e)
      [] t = "TimePointSec" -> TimePointSec_pack(x, e)
      [] t = "BlockTimeStampType" -> BlockTimeStampType_pack(x, e)
      [] t = "ProducerKey" -> ProducerKey_pack(x, e)
      [] t = "KeyWeight" -> KeyWeight_pack(x, e)
      [] t = "BlockSigningAuthorityV0" -> BlockSigningAuthorityV0_pack(x, e)
      [] t = "BlockSigningAuthority" -> BlockSigningAuthority_pack(x, e)
      [] t = "ProducerAuthority" -> ProducerAuthority_pack(x, e)

Unpack(t, self, data) ==
    CASE t = "Float128" -> Float128_unpack(self, data)
      [] t = "Checksum160" -> Checksum160_unpack(self, data)
      [] t = "Checksum256" -> Checksum256_unpack(self, data)
      [] t = "Checksum512" -> Checksum512_unpack(self, data)
      [] t = "ECCPublicKey" -> ECCPublicKey_unpack(self, data)
      [] t = "UserPresence" -> UserPresence_unpack(self, data)
      [] t = "WebAuthNPublicKey" -> WebAuthNPublicKey_unpack(self, data)
      [] t = "PublicKey" -> PublicKey_unpack(self, data)
      [] t = "Signature" -> Signature_unpack(self, data)
      [] t = "Uint256" -> Uint256_unpack(self, data)
      [] t = "TimePoint" -> TimePoint_unpack(self, data)
      [] t = "TimePointSec" -> TimePointSec_unpack(self, data)
      [] t = "BlockTimeStampType" -> BlockTimeStampType_unpack(self, data)
      [] t = "ProducerKey" -> ProducerKey_unpack(self, data)
      [] t = "KeyWeight" -> KeyWeight_unpack(self, data)
      [] t = "BlockSigningAuthorityV0" -> BlockSigningAuthorityV0_unpack(self, data)
      [] t = "BlockSigningAuthority" -> BlockSigningAuthority_unpack(self, data)
      [] t = "ProducerAuthority" -> ProducerAuthority_unpack(self, data)

----------------------------------------------------------------------------
(* Inputs: the values the operations are applied to *)

LimbRamp(w) == [i \in 1..w |-> 256 * (2 * i) + (2 * i - 1)]

EccRamp == [data |-> Ramp(33, 16)]

WebAuthX == [key |-> EccRamp, user_presence |-> "Verified", rpid |-> <<120>>]

KeyWeightA == [key |-> PublicKey_K1(EccRamp), weight |-> 10]

KeyWeightB == [key |-> PublicKey_WebAuth(WebAuthX), weight |-> 258]

Values(t) ==
    LET ByteArrays(n) == {[data |-> Zeros(n)], [data |-> Ramp(n, 0)], [data |-> Fill(n, 255)]}
        Limbs(w) == {Zeros(w), LimbRamp(w), Fill(w, 65535)}
        Names == {Name_default, [n |-> LimbRamp(4)]}
        KeyLists == UNION {[1..n -> {KeyWeightA, KeyWeightB}] : n \in 0..MaxKeys}
        V0s == {[threshold |-> th, keys |-> ks] : th \in {Zeros(2), LimbRamp(2)}, ks \in KeyLists}
    IN CASE t = "Float128" -> ByteArrays(16)
         [] t = "Checksum160" -> ByteArrays(20)
         [] t = "Checksum256" -> ByteArrays(32)
         [] t = "Checksum512" -> ByteArrays(64)
         [] t = "ECCPublicKey" -> ByteArrays(33)
         [] t = "UserPresence" -> {"None", "Present", "Verified"}
         [] t = "WebAuthNPublicKey" ->
               {WebAuthNPublicKey_default, WebAuthX,
                [key |-> [data |-> Fill(33, 255)], user_presence |-> "Present",
                 rpid |-> <<97, 98>>]}
         [] t = "PublicKey" ->
               {PublicKey_default, PublicKey_K1(EccRamp), PublicKey_R1(EccRamp),
                PublicKey_R1([data |-> Fill(33, 2)]), PublicKey_WebAuth(WebAuthX),
                PublicKey_WebAuth(WebAuthNPublicKey_default)}
         [] t = "Signature" -> {Signature_default}
         [] t = "Uint256" ->
               {Uint256_new(lo, hi) : lo \in Limbs(8), hi \in {Zeros(8), Fill(8, 4660)}}
         [] t = "TimePoint" -> {[elapsed |-> v] : v \in Limbs(4)}
         [] t = "TimePointSec" -> {[seconds |-> v] : v \in Limbs(2)}
         [] t = "BlockTimeStampType" -> {[slot |-> v] : v \in Limbs(2)}
         [] t = "ProducerKey" ->
               {ProducerKey_new(nm, k) :
                   nm \in Names, k \in {PublicKey_K1(EccRamp), PublicKey_WebAuth(WebAuthX)}}
         [] t = "KeyWeight" ->
               {KeyWeight_default, KeyWeightA, KeyWeightB,
                [key |-> PublicKey_R1(EccRamp), weight |-> 65535]}
         [] t = "BlockSigningAuthorityV0" -> V0s
         [] t = "BlockSigningAuthority" -> {BlockSigningAuthority_V0(x) : x \in V0s}
         [] t = "ProducerAuthority" ->
               {[producer_name |-> nm, authority |-> BlockSigningAuthority_V0(x)] :
                   nm \in Names, x \in V0s}

\* Hex strings handed to from_hex: the five accepted lengths, and wrong ones.
HexStrings ==
    {[i \in 1..n |-> "0"] : n \in {0, 39, 40, 64, 66, 128, 130, 132}}
        \cup {[i \in 1..n |-> HexDigits[(i % 16) + 1]] : n \in {40, 64, 65, 66, 128, 130}}

\* Buffers handed to unpack: the packed bytes followed by trailing data, cut to
\* a length, with one byte overwritten.
CutLengths(len) ==
    {c \in {0, 1, 8, 9, 16, 31, 33, 34, 65, len - 1, len, len + MaxTrail} :
        c >= 0 /\ c <= len + MaxTrail}

Overrides == {<<0, 0>>} \cup ({1, 9} \X {0, 1, 2, 3, 255})

Mutate(bytes, cut, ov) ==
    LET b == Take(bytes \o Fill(MaxTrail, 238), cut)
    IN [i \in 1..Len(b) |-> IF i = ov[1] THEN ov[2] ELSE b[i]]

----------------------------------------------------------------------------
(* chaintester/src/client.rs: replies and their parsing *)

\* thrift::Result<String>: a transport failure or a reply text.
Replies ==
    {[rpc |-> "Err", text |-> ""]}
        \cup {[rpc |-> "Ok", text |-> s] :
                 s \in {"{}", "{\"except\":{\"stack\":[]}}", "{\"except\":null}",
                        "{\"a\":{\"except\":1}}", "[\"except\"]", "\"except\"",
                        "{\"except\"", ""}}

\* serde_json::from_str / from_slice on these texts: the kind of the Value and
\* the keys of a top-level object, or a parse error.
from_str(text) ==
    CASE text = "{}" -> [kind |-> "object", keys |-> {}]
      [] text = "{\"except\":{\"stack\":[]}}" -> [kind |-> "object", keys |-> {"except"}]
      [] text = "{\"except\":null}" -> [kind |-> "object", keys |-> {"except"}]
      [] text = "{\"a\":{\"except\":1}}" -> [kind |-> "object", keys |-> {"a"}]
      [] text = "[\"except\"]" -> [kind |-> "array", keys |-> {}]
      [] text = "\"except\"" -> [kind |-> "string", keys |-> {}]
      [] OTHER -> [kind |-> "error", keys |-> {}]

\* Result<Value>: Ok(value), or Err(ChainTesterError {json, error_string}).
Ok(tx) == [ok |-> TRUE, value |-> tx, json |-> "None", error_string |-> "None"]

Err(json, error_string) ==
    [ok |-> FALSE, value |-> "None", json |-> json, error_string |-> error_string]

\* Mutant: a reply with an "except" key is returned as Ok.
parse_ret_ExceptOk(r) ==
    IF r.rpc = "Ok"
    THEN IF from_str(r.text).kind = "error" THEN Err("None", "Some")
         ELSE Ok(r.text)
    ELSE Err("None", "Some")

\* The Value is kept as the text it was parsed from.
parse_ret(r) ==
    IF r.rpc = "Ok"
    THEN IF from_str(r.text).kind = "error" THEN Err("None", "Some")
         ELSE IF from_str(r.text).kind = "object" /\ "except" \in from_str(r.text).keys
              THEN Err(r.text, "None")
              ELSE Ok(r.text)
    ELSE Err("None", "Some")

parse_ret2(r) ==
    IF r.rpc = "Ok"
    THEN IF from_str(r.text).kind = "error" THEN Err("None", "Some")
         ELSE IF from_str(r.text).kind = "object" /\ "except" \in from_str(r.text).keys
              THEN Err(r.text, "None")
              ELSE Ok(r.text)
    ELSE Err("None", "Some")

\* The match of ChainTester::push_action on the reply of the push_action call.
ChainTester_push_action(r) ==
    IF r.rpc = "Ok"
    THEN IF from_str(r.text).kind = "error" THEN Err("None", "Some")
         ELSE IF from_str(r.text).kind = "object" /\ "except" \in from_str(r.text).keys
              THEN Err(r.text, "None")
              ELSE Ok(r.text)
    ELSE Err("None", "Some")

----------------------------------------------------------------------------
(* chaintester/src/client.rs: the globals behind their mutexes, and the       *)
(* threads calling into them. A call is a sequence of steps, one per lock     *)
(* acquisition or remote call, so that calls of different threads interleave. *)

MaxChains == 1      \* chain ids the server hands out

Threads == {1, 2}

Contracts == {"hello"}

Ids == 1..MaxChains

\* A thread outside every call.
IdleThread ==
    [pc |-> "idle", op |-> "", id |-> 0, c |-> "", some |-> FALSE, held |-> <<>>,
     panicking |-> FALSE, i |-> 0, tries |-> 0, opened |-> FALSE]

NoResult == [op |-> "", reply |-> [rpc |-> "", text |-> ""], r |-> Err("None", "None")]

\* lazy_static!: both clients unconnected, the apply map empty.
Statics ==
    /\ thr = [t \in Threads |-> IdleThread]
    /\ client = "None"
    /\ vm = [vm_api_client |-> "None", in_apply |-> FALSE]
    /\ applys = [i \in Ids |-> [present |-> FALSE, map |-> {}]]
    /\ poisoned = {}
    /\ testers = [i \in Ids |-> [st |-> "none", owner |-> 0, some |-> {}]]
    /\ opens = [client |-> 0, vm |-> 0]
    /\ chains = 0
    /\ result = NoResult

\* Thread t holds a guard of mutex m.
Held(t, m) == \E i \in 1..Len(thr[t].held) : thr[t].held[i] = m

\* No guard of mutex m exists.
Free(m) == \A t \in Threads : ~Held(t, m)

\* The thread as it leaves a call: back in user code, or back to unwinding.
Leave(t) ==
    IF thr[t].panicking THEN [IdleThread EXCEPT !.pc = "unwind", !.panicking = TRUE]
    ELSE IdleThread

\* panic!, or unwrap() of an Err: unwinding drops the guards the thread holds,
\* poisoning their mutexes, and then the ChainTesters it owns; a panic while
\* unwinding aborts the process.
Panic(t, guards) ==
    /\ poisoned' = poisoned \cup {guards[i] : i \in 1..Len(guards)}
    /\ thr' = IF thr[t].panicking
             THEN [u \in Threads |-> [IdleThread EXCEPT !.pc = "aborted"]]
             ELSE [thr EXCEPT ![t] = [IdleThread EXCEPT !.pc = "unwind", !.panicking = TRUE]]

\* let guard = M.lock().unwrap(): waits while another guard exists, panics on a
\* poisoned mutex, and goes on at pc with the guard held.
Lock(t, m, pc) ==
    /\ Free(m)
    /\ IF m \in poisoned THEN Panic(t, thr[t].held)
       ELSE /\ thr' = [thr EXCEPT ![t].held = Append(@, m), ![t].pc = pc]
            /\ UNCHANGED poisoned

\* User code calls into client.rs.
Begin(t, o, i, c, s) ==
    /\ thr[t].pc = "idle"
    /\ o \in {"new", "new_ex"}
          => chains + Cardinality({u \in Threads : thr[u].op \in {"new", "new_ex"}}) < MaxChains
    /\ o \in {"free", "drop", "set_native_apply", "request"}
          => (i \in Ids /\ testers[i].owner = t /\ testers[i].st \in {"live", "freed"})
    /\ thr' = [thr EXCEPT ![t] =
                [IdleThread EXCEPT
                    !.op = o,
                    !.id = IF o \in {"free", "drop", "set_native_apply", "request"}
                           THEN i ELSE 0,
                    !.c = IF o = "set_native_apply" THEN c ELSE "",
                    !.some = (o = "set_native_apply" /\ s),
                    !.pc = CASE o \in {"free", "drop"} -> "remove"
                             [] o = "set_native_apply" -> "set_native_apply"
                             [] o = "close_chain_tester_client" -> "close_chain_tester_client"
                             [] o = "close_vm_api_client" -> "close_vm_api_client"
                             [] o = "get_vm_api_client" -> "get_vm_api_client"
                             [] OTHER -> "get_chain_tester_client"]]
    /\ UNCHANGED <<client, vm, applys, poisoned, testers, opens, chains, result>>
    /\ UNCHANGED pvars

\* Mutant: the guard is returned without looking at ret.client.
get_chain_tester_client_NoInit(t) ==
    /\ thr[t].pc = "get_chain_tester_client"
    /\ Lock(t, "CHAIN_TESTER_CLIENT", "call")
    /\ UNCHANGED <<client, vm, applys, testers, opens, chains, result>>
    /\ UNCHANGED pvars

\* let mut ret = CHAIN_TESTER_CLIENT.lock().unwrap(); if ret.client.is_none() ..
get_chain_tester_client(t) ==
    /\ thr[t].pc = "get_chain_tester_client"
    /\ Lock(t, "CHAIN_TESTER_CLIENT", IF client = "None" THEN "init" ELSE "call")
    /\ UNCHANGED <<client, vm, applys, testers, opens, chains, result>>
    /\ UNCHANGED pvars

\* ChainTesterClient::init up to init_vm_api_client(): c.open(..).unwrap() and
\* client.init_vm_api().unwrap().
ChainTesterClient_init(t, outcome) ==
    /\ thr[t].pc = "init"
    /\ IF outcome = "ok"
       THEN /\ thr' = [thr EXCEPT ![t].pc = "init_vm_api_client"]
            /\ UNCHANGED poisoned
       ELSE Panic(t, thr[t].held)
    /\ opens' = IF outcome = "open_err" THEN opens ELSE [opens EXCEPT !.client = @ + 1]
    /\ UNCHANGED <<client, vm, applys, testers, chains, result>>
    /\ UNCHANGED pvars

\* let mut ret = VM_API_CLIENT.lock().unwrap(); of init_vm_api_client and of
\* get_vm_api_client.
get_vm_api_client(t) ==
    /\ thr[t].pc \in {"init_vm_api_client", "get_vm_api_client"}
    /\ Lock(t, "VM_API_CLIENT", "vm_init")
    /\ UNCHANGED <<client, vm, applys, testers, opens, chains, result>>
    /\ UNCHANGED pvars

\* if ret.vm_api_client.is_none() { ret.init() }: new_vm_api_client(..).unwrap().
\* get_vm_api_client returns the guard; init_vm_api_client drops it.
VMAPIClient_init(t, ok) ==
    /\ thr[t].pc = "vm_init"
    /\ ok \/ vm.vm_api_client = "None"
    /\ IF ok
       THEN /\ thr' = [thr EXCEPT
                        ![t].pc = IF thr[t].op = "get_vm_api_client" THEN "guard"
                                  ELSE "init_apply_request",
                        ![t].held = IF thr[t].op = "get_vm_api_client" THEN @
                                    ELSE SubSeq(@, 1, Len(@) - 1)]
            /\ UNCHANGED poisoned
       ELSE Panic(t, thr[t].held)
    /\ vm' = IF ok THEN [vm EXCEPT !.vm_api_client = "Some"] ELSE vm
    /\ opens' = IF ok /\ vm.vm_api_client = "None" THEN [opens EXCEPT !.vm = @ + 1] ELSE opens
    /\ UNCHANGED <<client, applys, testers, chains, result>>
    /\ UNCHANGED pvars

\* The rest of ChainTesterClient::init: client.init_apply_request().unwrap();
\* self.client = Some(client).
ChainTesterClient_init_apply_request(t, ok) ==
    /\ thr[t].pc = "init_apply_request"
    /\ IF ok
       THEN /\ thr' = [thr EXCEPT ![t].pc = "call"]
            /\ UNCHANGED poisoned
       ELSE Panic(t, thr[t].held)
    /\ client' = IF ok THEN "Some" ELSE client
    /\ UNCHANGED <<vm, applys, testers, opens, chains, result>>
    /\ UNCHANGED pvars

\* Mutant: the guard of the client is still held when new() goes on to the
\* apply map.
ChainTester_new_KeepGuard(t, ok) ==
    /\ thr[t].pc = "call"
    /\ thr[t].op \in {"new", "new_ex"}
    /\ IF ok
       THEN /\ thr' = [thr EXCEPT ![t] = IF thr[t].op = "new"
                                       THEN [@ EXCEPT !.pc = "insert", !.id = chains + 1]
                                       ELSE Leave(t)]
            /\ UNCHANGED poisoned
       ELSE Panic(t, thr[t].held)
    /\ chains' = IF ok THEN chains + 1 ELSE chains
    /\ testers' = IF ok /\ thr[t].op = "new_ex"
                  THEN [testers EXCEPT ![chains + 1] = [st |-> "live", owner |-> t, some |-> {}]]
                  ELSE testers
    /\ UNCHANGED <<client, vm, applys, opens, result>>
    /\ UNCHANGED pvars

\* get_chain_tester_client().new_chain(..).unwrap() of new and new_ex; the guard
\* is dropped at the end of the statement. new_ex returns Self { id }.
ChainTester_new(t, ok) ==
    /\ thr[t].pc = "call"
    /\ thr[t].op \in {"new", "new_ex"}
    /\ IF ok
       THEN /\ thr' = [thr EXCEPT ![t] = IF thr[t].op = "new"
                                       THEN [@ EXCEPT !.pc = "insert", !.id = chains + 1,
                                                      !.held = <<>>]
                                       ELSE Leave(t)]
            /\ UNCHANGED poisoned
       ELSE Panic(t, thr[t].held)
    /\ chains' = IF ok THEN chains + 1 ELSE chains
    /\ testers' = IF ok /\ thr[t].op = "new_ex"
                  THEN [testers EXCEPT ![chains + 1] = [st |-> "live", owner |-> t, some |-> {}]]
                  ELSE testers
    /\ UNCHANGED <<client, vm, applys, opens, result>>
    /\ UNCHANGED pvars

\* get_apply_map_mutex().insert(id, HashMap::new()); Self { id }
ChainTester_new_insert(t) ==
    /\ thr[t].pc = "insert"
    /\ Free("CHAIN_TESTER_APPLYS")
    /\ IF "CHAIN_TESTER_APPLYS" \in poisoned
       THEN /\ Panic(t, thr[t].held)
            /\ UNCHANGED <<applys, testers>>
       ELSE /\ applys' = [applys EXCEPT ![thr[t].id] = [present |-> TRUE, map |-> {}]]
            /\ testers' = [testers EXCEPT
                              ![thr[t].id] = [st |-> "live", owner |-> t, some |-> {}]]
            /\ thr' = [thr EXCEPT ![t] = Leave(t)]
            /\ UNCHANGED poisoned
    /\ UNCHANGED <<client, vm, opens, chains, result>>
    /\ UNCHANGED pvars

\* get_apply_map_mutex().remove(&self.id); of free, which drop calls too. A
\* ChainTester being dropped is not dropped again: it is gone, or lost when its
\* drop panicked before the entry was removed.
ChainTester_free_remove(t) ==
    /\ thr[t].pc = "remove"
    /\ Free("CHAIN_TESTER_APPLYS")
    /\ IF "CHAIN_TESTER_APPLYS" \in poisoned
       THEN /\ Panic(t, thr[t].held)
            /\ UNCHANGED applys
       ELSE /\ applys' = [applys EXCEPT ![thr[t].id] = [present |-> FALSE, map |-> {}]]
            /\ thr' = [thr EXCEPT ![t].pc = "get_chain_tester_client"]
            /\ UNCHANGED poisoned
    /\ testers' = [testers EXCEPT
                      ![thr[t].id].st =
                          IF "CHAIN_TESTER_APPLYS" \in poisoned
                          THEN (IF thr[t].op = "drop" THEN "lost" ELSE @)
                          ELSE (IF thr[t].op = "drop" THEN "gone" ELSE "freed")]
    /\ UNCHANGED <<client, vm, opens, chains, result>>
    /\ UNCHANGED pvars

\* self.client().free_chain(self.id).unwrap();
ChainTester_free(t, ok) ==
    /\ thr[t].pc = "call"
    /\ thr[t].op \in {"free", "drop"}
    /\ IF ok
       THEN /\ thr' = [thr EXCEPT ![t] = Leave(t)]
            /\ UNCHANGED poisoned
       ELSE Panic(t, thr[t].held)
    /\ UNCHANGED <<client, vm, applys, testers, opens, chains, result>>
    /\ UNCHANGED pvars

\* set_native_apply up to enable_debug_contract: the guard of the apply map is
\* held to the end of the function; get_mut(&self.id).unwrap() panics when the
\* map has no entry for the id.
ChainTester_set_native_apply(t) ==
    /\ thr[t].pc = "set_native_apply"
    /\ Free("CHAIN_TESTER_APPLYS")
    /\ IF "CHAIN_TESTER_APPLYS" \in poisoned
       THEN /\ Panic(t, thr[t].held)
            /\ UNCHANGED applys
       ELSE IF ~applys[thr[t].id].present
            THEN /\ Panic(t, Append(thr[t].held, "CHAIN_TESTER_APPLYS"))
                 /\ UNCHANGED applys
            ELSE /\ applys' = [applys EXCEPT
                                 ![thr[t].id].map = IF thr[t].some THEN @ \cup {thr[t].c}
                                                   ELSE @ \ {thr[t].c}]
                 /\ thr' = [thr EXCEPT ![t].held = Append(@, "CHAIN_TESTER_APPLYS"),
                                     ![t].pc = "get_chain_tester_client"]
                 /\ UNCHANGED poisoned
    /\ testers' = [testers EXCEPT
                      ![thr[t].id].some = IF thr[t].some THEN @ \cup {thr[t].c}
                                         ELSE @ \ {thr[t].c}]
    /\ UNCHANGED <<client, vm, opens, chains, result>>
    /\ UNCHANGED pvars

\* self.client().enable_debug_contract(..)?; Ok(()): either way the function
\* returns and both guards are dropped.
ChainTester_enable_debug_contract(t) ==
    /\ thr[t].pc = "call"
    /\ thr[t].op = "set_native_apply"
    /\ thr' = [thr EXCEPT ![t] = Leave(t)]
    /\ UNCHANGED <<client, vm, applys, poisoned, testers, opens, chains, result>>
    /\ UNCHANGED pvars

\* get_info (parse_ret), push_actions (parse_ret2) and push_action: the remote
\* call and the Result<Value> made of its reply. push_action holds the guard to
\* the end of its match; the other two drop it before they parse.
ChainTester_request(t, f, reply) ==
    /\ thr[t].pc = "call"
    /\ thr[t].op = "request"
    /\ result' = [op |-> f, reply |-> reply,
                  r |-> CASE f = "get_info" -> parse_ret(reply)
                          [] f = "push_actions" -> parse_ret2(reply)
                          [] f = "push_action" -> ChainTester_push_action(reply)]
    /\ thr' = [thr EXCEPT ![t].pc = "return",
                          ![t].held = IF f = "push_action" THEN @ ELSE <<>>]
    /\ UNCHANGED <<client, vm, applys, poisoned, testers, opens, chains>>
    /\ UNCHANGED pvars

\* The caller takes the Result<Value>.
ChainTester_return(t) ==
    /\ thr[t].pc = "return"
    /\ result' = NoResult
    /\ thr' = [thr EXCEPT ![t] = Leave(t)]
    /\ UNCHANGED <<client, vm, applys, poisoned, testers, opens, chains>>
    /\ UNCHANGED pvars

\* VMAPIClient::set_in_apply, through the guard the caller was handed.
VMAPIClient_set_in_apply(t, in_apply) ==
    /\ thr[t].pc = "guard"
    /\ thr[t].op = "get_vm_api_client"
    /\ vm' = [vm EXCEPT !.in_apply = in_apply]
    /\ UNCHANGED <<thr, client, applys, poisoned, testers, opens, chains, result>>
    /\ UNCHANGED pvars

\* Mutant: the borrow is handed out without looking at in_apply.
VMAPIClient_deref_mut_NoCheck(t) ==
    /\ thr[t].pc = "guard"
    /\ thr[t].op = "get_vm_api_client"
    /\ IF vm.vm_api_client = "None"
       THEN Panic(t, thr[t].held)
       ELSE /\ thr' = [thr EXCEPT ![t].pc = "vm_request"]
            /\ UNCHANGED poisoned
    /\ UNCHANGED <<client, vm, applys, testers, opens, chains, result>>
    /\ UNCHANGED pvars

\* impl DerefMut for VMAPIClient, as a call of a &mut self method of the thrift
\* client through the guard: panic! when !self.is_in_apply(), then
\* self.vm_api_client.as_mut().unwrap().
VMAPIClient_deref_mut(t) ==
    /\ thr[t].pc = "guard"
    /\ thr[t].op = "get_vm_api_client"
    /\ IF ~vm.in_apply \/ vm.vm_api_client = "None"
       THEN Panic(t, thr[t].held)
       ELSE /\ thr' = [thr EXCEPT ![t].pc = "vm_request"]
            /\ UNCHANGED poisoned
    /\ UNCHANGED <<client, vm, applys, testers, opens, chains, result>>
    /\ UNCHANGED pvars

\* The VM API request made through the mutable borrow returns; the caller still
\* has the guard.
VMAPIClient_request_return(t) ==
    /\ thr[t].pc = "vm_request"
    /\ thr' = [thr EXCEPT ![t].pc = "guard"]
    /\ UNCHANGED <<client, vm, applys, poisoned, testers, opens, chains, result>>
    /\ UNCHANGED pvars

\* The caller of get_chain_tester_client or get_vm_api_client drops the guard
\* it was handed.
DropGuard(t) ==
    /\ \/ thr[t].pc = "call" /\ thr[t].op = "get_chain_tester_client"
       \/ thr[t].pc = "guard"
    /\ thr' = [thr EXCEPT ![t] = Leave(t)]
    /\ UNCHANGED <<client, vm, applys, poisoned, testers, opens, chains, result>>
    /\ UNCHANGED pvars

close_chain_tester_client(t) ==
    /\ thr[t].pc = "close_chain_tester_client"
    /\ Free("CHAIN_TESTER_CLIENT")
    /\ IF "CHAIN_TESTER_CLIENT" \in poisoned
       THEN /\ Panic(t, thr[t].held)
            /\ UNCHANGED <<client, opens>>
       ELSE /\ client' = "None"
            /\ opens' = [opens EXCEPT !.client = 0]
            /\ thr' = [thr EXCEPT ![t] = Leave(t)]
            /\ UNCHANGED poisoned
    /\ UNCHANGED <<vm, applys, testers, chains, result>>
    /\ UNCHANGED pvars

close_vm_api_client(t) ==
    /\ thr[t].pc = "close_vm_api_client"
    /\ Free("VM_API_CLIENT")
    /\ IF "VM_API_CLIENT" \in poisoned
       THEN /\ Panic(t, thr[t].held)
            /\ UNCHANGED <<vm, opens>>
       ELSE /\ vm' = [vm EXCEPT !.vm_api_client = "None"]
            /\ opens' = [opens EXCEPT !.vm = 0]
            /\ thr' = [thr EXCEPT ![t] = Leave(t)]
            /\ UNCHANGED poisoned
    /\ UNCHANGED <<client, applys, testers, chains, result>>
    /\ UNCHANGED pvars

\* Unwinding drops the ChainTesters the thread owns, one after the other (impl
\* Drop for ChainTester: self.free()), and ends the thread.
Unwind(t) ==
    /\ thr[t].pc = "unwind"
    /\ IF \E i \in Ids : testers[i].owner = t /\ testers[i].st \in {"live", "freed"}
       THEN \E i \in Ids :
               /\ testers[i].owner = t
               /\ testers[i].st \in {"live", "freed"}
               /\ thr' = [thr EXCEPT ![t] = [IdleThread EXCEPT !.pc = "remove", !.op = "drop",
                                                           !.id = i, !.panicking = TRUE]]
       ELSE thr' = [thr EXCEPT ![t].pc = "dead"]
    /\ UNCHANGED <<client, vm, applys, poisoned, testers, opens, chains, result>>
    /\ UNCHANGED pvars

----------------------------------------------------------------------------
(* chaintester/src/client.rs: new_vm_api_client *)

\* The last value of for i in 0..=10.
LastTry == 10

\* A thread calls new_vm_api_client(host, port): let mut c = TTcpChannel::new(),
\* and the loop starts with i = 0. tries counts the calls of c.open, opened is
\* the state of the channel c.
new_vm_api_client(t) ==
    /\ thr[t].pc = "idle"
    /\ thr' = [thr EXCEPT ![t] = [IdleThread EXCEPT !.op = "new_vm_api_client", !.pc = "open"]]
    /\ UNCHANGED <<client, vm, applys, poisoned, testers, opens, chains, result>>
    /\ UNCHANGED pvars

\* Mutant: the last failure leaves the loop like a success.
new_vm_api_client_open_NoPanic(t, ok) ==
    /\ thr[t].pc = "open"
    /\ thr' = [thr EXCEPT ![t] =
                IF ok THEN [@ EXCEPT !.pc = "split", !.tries = @ + 1, !.opened = TRUE]
                ELSE IF thr[t].i = LastTry THEN [@ EXCEPT !.pc = "split", !.tries = @ + 1]
                ELSE [@ EXCEPT !.i = @ + 1, !.tries = @ + 1]]
    /\ UNCHANGED <<client, vm, applys, poisoned, testers, opens, chains, result>>
    /\ UNCHANGED pvars

\* One pass of the loop: match c.open(&remote_address): Ok(()) => break;
\* Err(err) => if i == 10 { panic!("{}", err) } else the next i.
new_vm_api_client_open(t, ok) ==
    /\ thr[t].pc = "open"
    /\ IF ok
       THEN /\ thr' = [thr EXCEPT ![t].pc = "split", ![t].tries = @ + 1,
                                  ![t].opened = TRUE]
            /\ UNCHANGED poisoned
       ELSE IF thr[t].i = LastTry
       THEN Panic(t, thr[t].held)
       ELSE /\ thr' = [thr EXCEPT ![t].i = @ + 1, ![t].tries = @ + 1]
            /\ UNCHANGED poisoned
    /\ UNCHANGED <<client, vm, applys, testers, opens, chains, result>>
    /\ UNCHANGED pvars

\* After the loop: let (i_chan, o_chan) = c.split()?; and
\* Ok(ApplySyncClient::new(i_prot, o_prot)).
new_vm_api_client_build(t, ok) ==
    /\ thr[t].pc = "split"
    /\ thr' = [thr EXCEPT ![t].pc = IF ok THEN "Ok" ELSE "Err"]
    /\ UNCHANGED <<client, vm, applys, poisoned, testers, opens, chains, result>>
    /\ UNCHANGED pvars

\* The caller takes the thrift::Result.
new_vm_api_client_return(t) ==
    /\ thr[t].pc \in {"Ok", "Err"}
    /\ thr' = [thr EXCEPT ![t] = Leave(t)]
    /\ UNCHANGED <<client, vm, applys, poisoned, testers, opens, chains, result>>
    /\ UNCHANGED pvars

----------------------------------------------------------------------------
(* Operations *)

NoRes == [ok |-> FALSE, self |-> 0, n |-> 0]

NoPrev == [t |-> "", x |-> 0, seg |-> <<>>]

\* The bytes the last pack appended.
Seg == SubSeq(enc, pos0 + 1, Len(enc))

\* The state after construction: let x = T::default() / T::new(..) / a struct literal.
Init ==
    \E t \in Types : \E v \in Values(t) :
        /\ op = "init"
        /\ ty = t
        /\ obj = v
        /\ alive = TRUE
        /\ enc = Encoder_new
        /\ pos0 = 0
        /\ ret = 0
        /\ packed = [t |-> t, x |-> v]
        /\ prev = NoPrev
        /\ npacks = 0
        /\ inbuf = <<>>
        /\ self0 = v
        /\ res = NoRes
        /\ rounds = 0
        /\ Statics

\* let x = T::from_hex(s); instead of the value drawn at construction.
FromHex(s) ==
    LET r == CASE ty = "Checksum160" -> Checksum160_from_hex(s)
               [] ty = "Checksum256" -> Checksum256_from_hex(s)
               [] ty = "Checksum512" -> Checksum512_from_hex(s)
               [] ty = "ECCPublicKey" -> ECCPublicKey_from_hex(s)
               [] ty = "Signature" -> Signature_from_hex(s)
    IN /\ op = "init"
       /\ ty \in {"Checksum160", "Checksum256", "Checksum512", "ECCPublicKey", "Signature"}
       /\ obj = Default(ty)
       /\ op' = "from_hex"
       /\ obj' = r.self
       /\ alive' = r.ok
       /\ packed' = [t |-> ty, x |-> r.self]
       /\ self0' = r.self
       /\ inbuf' = s
       /\ UNCHANGED <<ty, enc, pos0, ret, prev, npacks, res, rounds>>
       /\ UNCHANGED cvars

\* let x = x.swap(); on a Uint256.
Swap ==
    /\ op \in {"init", "swap"}
    /\ ty = "Uint256"
    /\ op' = "swap"
    /\ obj' = Uint256_swap(obj)
    /\ self0' = obj
    /\ packed' = [t |-> ty, x |-> Uint256_swap(obj)]
    /\ UNCHANGED <<ty, alive, enc, pos0, ret, prev, npacks, inbuf, res, rounds>>
    /\ UNCHANGED cvars

\* let mut enc = Encoder::new(..); obj.pack(&mut enc);
PackFresh ==
    /\ alive
    /\ op \in {"init", "from_hex", "swap", "unpack"}
    /\ LET r == Pack(ty, obj, Encoder_new)
       IN /\ enc' = r.enc
          /\ ret' = r.ret
    /\ op' = "pack"
    /\ pos0' = 0
    /\ packed' = [t |-> ty, x |-> obj]
    /\ npacks' = 1
    /\ UNCHANGED <<ty, obj, alive, prev, inbuf, self0, res, rounds>>
    /\ UNCHANGED cvars

\* target.unpack(&buffer): target is a default value or the object just packed.
UnpackBuf(target, cut, ov) ==
    /\ alive
    /\ op = "pack"
    /\ rounds < MaxRounds
    /\ LET data == Mutate(enc, cut, ov)
           r == Unpack(ty, target, data)
       IN /\ inbuf' = data
          /\ self0' = target
          /\ res' = r
          /\ obj' = r.self
          /\ alive' = r.ok
    /\ op' = "unpack"
    /\ rounds' = rounds + 1
    /\ UNCHANGED <<ty, enc, pos0, ret, packed, prev, npacks>>
    /\ UNCHANGED cvars

ConstructFromHex == \E s \in HexStrings : FromHex(s)

DoUnpack ==
    \E target \in {Default(ty), obj} : \E cut \in CutLengths(Len(enc)) : \E ov \in Overrides :
        UnpackBuf(target, cut, ov)

Next == ConstructFromHex \/ Swap \/ PackFresh \/ DoUnpack

Spec == Init /\ [][Next]_vars

----------------------------------------------------------------------------
(* Several values packed into one encoder *)

\* One value of every Packer type.
EncValue(t) ==
    CASE t = "UserPresence" -> "Verified"
      [] t = "WebAuthNPublicKey" -> WebAuthX
      [] t = "PublicKey" -> PublicKey_R1(EccRamp)
      [] t = "Signature" -> Signature_default
      [] t = "Uint256" -> Uint256_new(LimbRamp(8), Fill(8, 4660))
      [] t = "TimePoint" -> [elapsed |-> LimbRamp(4)]
      [] t = "TimePointSec" -> [seconds |-> LimbRamp(2)]
      [] t = "BlockTimeStampType" -> [slot |-> LimbRamp(2)]
      [] t = "ProducerKey" -> ProducerKey_new([n |-> LimbRamp(4)], PublicKey_K1(EccRamp))
      [] t = "KeyWeight" -> KeyWeightB
      [] t = "BlockSigningAuthorityV0" -> [threshold |-> LimbRamp(2), keys |-> <<KeyWeightA>>]
      [] t = "BlockSigningAuthority" ->
            BlockSigningAuthority_V0([threshold |-> LimbRamp(2), keys |-> <<KeyWeightB>>])
      [] t = "ProducerAuthority" ->
            [producer_name |-> [n |-> LimbRamp(4)],
             authority |-> BlockSigningAuthority_V0([threshold |-> Zeros(2),
                                                     keys |-> <<KeyWeightA>>])]
      [] OTHER -> [data |-> Ramp(Size(t, Default(t)), 0)]

InitEnc == Init /\ obj = EncValue(ty)

\* obj.pack(&mut enc) into the encoder as it is.
PackInto ==
    /\ alive
    /\ op \in {"init", "let"}
    /\ npacks < MaxPacks
    /\ LET r == Pack(ty, obj, enc)
       IN /\ enc' = r.enc
          /\ ret' = r.ret
    /\ op' = "pack"
    /\ pos0' = Encoder_get_size(enc)
    /\ packed' = [t |-> ty, x |-> obj]
    /\ prev' = IF npacks = 0 THEN NoPrev ELSE [t |-> packed.t, x |-> packed.x, seg |-> Seg]
    /\ npacks' = npacks + 1
    /\ UNCHANGED <<ty, obj, alive, inbuf, self0, res, rounds>>
    /\ UNCHANGED cvars

\* let x = <another value>; the encoder stays as it is.
Let(t) ==
    /\ op = "pack"
    /\ npacks < MaxPacks
    /\ op' = "let"
    /\ ty' = t
    /\ obj' = EncValue(t)
    /\ UNCHANGED <<alive, enc, pos0, ret, packed, prev, npacks, inbuf, self0, res, rounds>>
    /\ UNCHANGED cvars

LetNext == \E t \in Types : Let(t)

NextEnc == PackInto \/ LetNext

SpecEnc == InitEnc /\ [][NextEnc]_vars

----------------------------------------------------------------------------
(* Threads calling into the test client *)

InitClient == Init /\ ty = "UserPresence" /\ obj = UserPresence_default

Step(t) ==
    \/ \E o \in {"new", "new_ex", "free", "drop", "set_native_apply", "request",
                 "get_chain_tester_client", "close_chain_tester_client",
                 "get_vm_api_client", "close_vm_api_client"} :
          \E i \in Ids : \E c \in Contracts : \E s \in BOOLEAN : Begin(t, o, i, c, s)
    \/ get_chain_tester_client(t)
    \/ \E outcome \in {"ok", "open_err", "rpc_err"} : ChainTesterClient_init(t, outcome)
    \/ get_vm_api_client(t)
    \/ \E ok \in BOOLEAN : VMAPIClient_init(t, ok)
    \/ \E ok \in BOOLEAN : ChainTesterClient_init_apply_request(t, ok)
    \/ \E ok \in BOOLEAN : ChainTester_new(t, ok)
    \/ ChainTester_new_insert(t)
    \/ ChainTester_free_remove(t)
    \/ \E ok \in BOOLEAN : ChainTester_free(t, ok)
    \/ ChainTester_set_native_apply(t)
    \/ ChainTester_enable_debug_contract(t)
    \/ \E f \in {"get_info", "push_actions", "push_action"} : \E reply \in Replies :
          ChainTester_request(t, f, reply)
    \/ ChainTester_return(t)
    \/ \E in_apply \in BOOLEAN : VMAPIClient_set_in_apply(t, in_apply)
    \/ VMAPIClient_deref_mut(t)
    \/ VMAPIClient_request_return(t)
    \/ DropGuard(t)
    \/ close_chain_tester_client(t)
    \/ close_vm_api_client(t)
    \/ Unwind(t)

NextClient == \E t \in Threads : Step(t)

SpecClient == InitClient /\ [][NextClient]_vars

----------------------------------------------------------------------------
\* Threads calling new_vm_api_client; every call of c.open and c.split returns.
StepVm(t) ==
    \/ new_vm_api_client(t)
    \/ \E ok \in BOOLEAN : new_vm_api_client_open(t, ok)
    \/ \E ok \in BOOLEAN : new_vm_api_client_build(t, ok)
    \/ new_vm_api_client_return(t)
    \/ Unwind(t)

NextVm == \E t \in Threads : StepVm(t)

SpecVm ==
    /\ InitClient
    /\ [][NextVm]_vars
    /\ \A t \in Threads :
          /\ WF_vars(\E ok \in BOOLEAN : new_vm_api_client_open(t, ok))
          /\ WF_vars(\E ok \in BOOLEAN : new_vm_api_client_build(t, ok))

----------------------------------------------------------------------------
(* Properties *)

\* The last operation unpacked exactly the bytes that pack produced, into a
\* default value.
RoundTripCase == op = "unpack" /\ inbuf = enc /\ self0 = Default(ty)

\* C1: packing x into an empty encoder and unpacking those bytes into a default
\* value yields a value equal to x, for every Packer type.
C1_RoundTrip == RoundTripCase => (res.ok /\ res.self = packed.x)

\* A producer authority with one key-weight entry of weight 10 went through
\* pack and unpack.
C1_Witness ==
    /\ RoundTripCase
    /\ ty = "ProducerAuthority"
    /\ res.ok
    /\ Len(packed.x.authority.v.keys) = 1
    /\ res.self.authority.v.keys[1].weight = 10
    /\ res.self.producer_name = [n |-> LimbRamp(4)]

\* C2: x.size(), the value pack returns, the bytes by which pack grows the
\* encoder and the value unpack returns on those bytes are the same number.
C2_SizesAgree ==
    /\ op = "pack" => (Size(ty, obj) = ret /\ ret = Len(enc) - pos0)
    /\ RoundTripCase => (res.ok /\ res.n = ret /\ res.n = Size(ty, res.self))

\* C3: PublicKey.unpack aborts, and leaves no decoded key in self, on every
\* buffer whose first byte is not 0, 1 or 2, whatever its length.
C3_TagRejected ==
    (op = "unpack" /\ ty = "PublicKey" /\ Len(inbuf) >= 1 /\ inbuf[1] \notin {0, 1, 2})
        => (~res.ok /\ res.self = self0)

\* A buffer long enough for a key, with discriminant 3, was handed to unpack.
C3_Witness ==
    /\ op = "unpack"
    /\ ty = "PublicKey"
    /\ Len(inbuf) >= 34
    /\ inbuf[1] = 3
    /\ ~res.ok

\* C4: BlockSigningAuthority.unpack aborts without decoding a payload when the
\* first byte is not 0, and ProducerAuthority.unpack aborts likewise when the
\* byte after the 8-byte name is not 0.
C4_AuthorityTagRejected ==
    /\ (op = "unpack" /\ ty = "BlockSigningAuthority" /\ Len(inbuf) >= 1 /\ inbuf[1] # 0)
          => (~res.ok /\ res.self = self0)
    /\ (op = "unpack" /\ ty = "ProducerAuthority" /\ Len(inbuf) >= 9 /\ inbuf[9] # 0)
          => (~res.ok /\ res.self.authority = self0.authority)

\* A block signing authority buffer with first byte 1 and a payload behind it
\* was handed to unpack.
C4_Witness ==
    /\ op = "unpack"
    /\ ty = "BlockSigningAuthority"
    /\ Len(inbuf) > 5
    /\ inbuf[1] = 1
    /\ ~res.ok

\* C5: every fixed-size type aborts on a buffer shorter than its size before
\* copying any byte into self.
C5_LengthGuard ==
    (op = "unpack" /\ ty \in FixedTypes /\ Len(inbuf) < Size(ty, self0))
        => (~res.ok /\ res.self = self0)

\* C6: Signature.unpack succeeds only on a buffer of at least 66 bytes whose
\* first byte is 0, so every live Signature has type 0 and packs with a leading
\* zero byte.
C6_SignatureType0 ==
    /\ (op = "unpack" /\ ty = "Signature" /\ res.ok) => (Len(inbuf) >= 66 /\ inbuf[1] = 0)
    /\ (alive /\ ty = "Signature") => obj.ty = 0
    /\ (op = "pack" /\ ty = "Signature") => enc[pos0 + 1] = 0

\* A signature built by from_hex was packed, unpacked and packed again.
C6_Witness ==
    /\ op = "pack"
    /\ ty = "Signature"
    /\ rounds >= 1
    /\ obj.data # Zeros(65)
    /\ enc[1] = 0

\* C7: the bytes a pack appends are those it appends to an empty encoder, and
\* two packs of equal values into one encoder append identical bytes.
C7_Deterministic ==
    op = "pack" =>
        /\ Seg = Pack(ty, obj, Encoder_new).enc
        /\ (prev.t = ty /\ prev.x = obj) => Seg = prev.seg

\* The same public key was packed twice into one encoder.
C7_Witness ==
    /\ op = "pack"
    /\ npacks = 2
    /\ ty = "PublicKey"
    /\ prev.t = ty
    /\ prev.x = obj
    /\ pos0 > 0

\* The discriminant byte of a public key.
TagByte(k) ==
    CASE k.tag = "K1" -> 0
      [] k.tag = "R1" -> 1
      [] k.tag = "WebAuth" -> 2

\* C8: PublicKey.pack writes one discriminant byte immediately followed by the
\* variant's own encoding, and size() is 1 plus the variant's size; a K1 key of
\* 33 zero bytes packs to 34 zero bytes with size() 34.
C8_PublicKeyLayout ==
    (op = "pack" /\ ty = "PublicKey") =>
        /\ Seg = <<TagByte(obj)>> \o (IF obj.tag = "WebAuth"
                                        THEN WebAuthNPublicKey_pack(obj.v, Encoder_new).enc
                                        ELSE obj.v.data)
        /\ PublicKey_size(obj) = 1 + (IF obj.tag = "WebAuth"
                                        THEN WebAuthNPublicKey_size(obj.v) ELSE 33)
        /\ ret = PublicKey_size(obj)
        /\ obj = PublicKey_K1([data |-> Zeros(33)])
              => (Seg = Zeros(34) /\ PublicKey_size(obj) = 34)

\* The all-zero K1 key was packed.
C8_Witness ==
    /\ op = "pack"
    /\ ty = "PublicKey"
    /\ obj = PublicKey_K1([data |-> Zeros(33)])
    /\ Len(enc) = 34

\* The bytes of a value packed on its own.
BytesOf(t, x) == Pack(t, x, Encoder_new).enc

\* The second field of a composite is what its own unpack decodes from the
\* bytes at offset at, and the composite consumed up to the end of that field.
SecondFieldAt(t2, field, at) ==
    LET r == Unpack(t2, Default(t2), Drop(inbuf, at))
    IN r.ok /\ field = r.self /\ res.n = at + r.n

\* C9: composite records pack and unpack their fields in declared order, each
\* field starting where the previous one ends.
C9_FieldOrder ==
    /\ (op = "pack" /\ ty = "ProducerKey") =>
          Seg = LimbsToBytes(obj.producer_name.n) \o BytesOf("PublicKey", obj.block_signing_key)
    /\ (op = "pack" /\ ty = "KeyWeight") =>
          Seg = BytesOf("PublicKey", obj.key) \o <<obj.weight % 256, obj.weight \div 256>>
    /\ (op = "pack" /\ ty = "BlockSigningAuthorityV0") =>
          Seg = LimbsToBytes(obj.threshold) \o VecKeyWeight_pack(obj.keys, Encoder_new).enc
    /\ (op = "pack" /\ ty = "ProducerAuthority") =>
          Seg = LimbsToBytes(obj.producer_name.n)
                    \o BytesOf("BlockSigningAuthority", obj.authority)
    /\ (op = "unpack" /\ res.ok /\ ty = "ProducerKey") =>
          /\ res.self.producer_name.n = BytesToLimbs(SubSeq(inbuf, 1, 8))
          /\ SecondFieldAt("PublicKey", res.self.block_signing_key, 8)
    /\ (op = "unpack" /\ res.ok /\ ty = "KeyWeight") =>
          LET k == PublicKey_unpack(PublicKey_default, inbuf)
          IN /\ k.ok
             /\ res.self.key = k.self
             /\ res.self.weight = inbuf[k.n + 1] + 256 * inbuf[k.n + 2]
             /\ res.n = k.n + 2
    /\ (op = "unpack" /\ res.ok /\ ty = "BlockSigningAuthorityV0") =>
          LET ks == VecKeyWeight_unpack(<<>>, Drop(inbuf, 4))
          IN /\ ks.ok
             /\ res.self.threshold = BytesToLimbs(SubSeq(inbuf, 1, 4))
             /\ res.self.keys = ks.self
             /\ res.n = 4 + ks.n
    /\ (op = "unpack" /\ res.ok /\ ty = "ProducerAuthority") =>
          /\ res.self.producer_name.n = BytesToLimbs(SubSeq(inbuf, 1, 8))
          /\ SecondFieldAt("BlockSigningAuthority", res.self.authority, 8)

\* A key weight (WebAuthn key, weight 258) was packed and decoded again.
C9_Witness ==
    /\ op = "unpack"
    /\ ty = "KeyWeight"
    /\ res.ok
    /\ res.self.weight = 258
    /\ res.self.key.tag = "WebAuth"

\* C10: BlockSigningAuthorityV0.size() is 4 (the u32 threshold) plus the size
\* of the VarUint32 count plus the sizes of the key weights in keys.
C10_V0Size ==
    (alive /\ ty = "BlockSigningAuthorityV0") =>
        BlockSigningAuthorityV0_size(obj)
            = 4 + VarUint32_size(Len(obj.keys)) + SumKeySizes(obj.keys)

\* C11: from_hex of Checksum160, Checksum256, Checksum512, ECCPublicKey and
\* Signature aborts unless the string has exactly two characters per payload
\* byte (40, 64, 128, 66, 130); an accepted string leaves its decoded bytes, in
\* order, as the payload, and 64 zero characters give a Checksum256 that packs
\* to 32 zero bytes.
C11_FromHex ==
    /\ op = "from_hex" =>
          LET n == CASE ty = "Checksum160" -> 20
                     [] ty = "Checksum256" -> 32
                     [] ty = "Checksum512" -> 64
                     [] ty = "ECCPublicKey" -> 33
                     [] ty = "Signature" -> 65
          IN /\ alive <=> Len(inbuf) = 2 * n
             /\ alive => /\ Len(obj.data) = n
                         /\ \A i \in 1..n :
                               obj.data[i] = 16 * HexVal(inbuf[2 * i - 1]) + HexVal(inbuf[2 * i])
    /\ (op = "pack" /\ rounds = 0 /\ ty = "Checksum256" /\ inbuf = [i \in 1..64 |-> "0"])
          => enc = Zeros(32)

\* A Checksum256 built from the 64 characters "1234..." was packed: its first
\* byte is 0x12.
C11_Witness ==
    /\ op = "pack"
    /\ rounds = 0
    /\ ty = "Checksum256"
    /\ Len(inbuf) = 64
    /\ enc[1] = 18
    /\ enc[2] = 52
    /\ Len(enc) = 32

\* C12: WebAuthNPublicKey packs as the 33 key bytes, one presence byte (0 for
\* None, 1 for Present, 2 for Verified) and the length-prefixed rpid, in that
\* order; UserPresence.unpack succeeds exactly on a non-empty buffer whose first
\* byte is 0, 1 or 2, and then holds the variant of that byte.
C12_WebAuthNLayout ==
    /\ (op = "pack" /\ ty = "WebAuthNPublicKey") =>
          /\ Seg = obj.key.data
                     \o <<CASE obj.user_presence = "None" -> 0
                            [] obj.user_presence = "Present" -> 1
                            [] obj.user_presence = "Verified" -> 2>>
                     \o <<Len(obj.rpid)>> \o obj.rpid
          /\ Len(obj.key.data) = 33
          /\ obj = WebAuthX => Seg = Ramp(33, 16) \o <<2, 1, 120>>
    /\ (op = "unpack" /\ ty = "UserPresence") =>
          /\ res.ok <=> (Len(inbuf) >= 1 /\ inbuf[1] \in {0, 1, 2})
          /\ res.ok => res.self = <<"None", "Present", "Verified">>[inbuf[1] + 1]
          /\ ~res.ok => res.self = self0

\* The key with presence Verified and rpid "x" was packed.
C12_Witness ==
    /\ op = "pack"
    /\ ty = "WebAuthNPublicKey"
    /\ obj.user_presence = "Verified"
    /\ obj.rpid = <<120>>
    /\ Len(enc) = 36
    /\ enc[34] = 2

\* C13: a pack into an encoder in use leaves every byte written before it as
\* it was, never shortens the buffer, and appends from the end the buffer had:
\* the bytes of the pack before it still precede the bytes it appended.
C13_AppendOnly ==
    [][/\ Len(enc') >= Len(enc)
       /\ SubSeq(enc', 1, Len(enc)) = enc
       /\ op' = "pack" =>
             /\ pos0' = Len(enc)
             /\ npacks' >= 2 => SubSeq(enc', pos0' - Len(prev'.seg) + 1, pos0') = prev'.seg]_vars

\* A producer key was packed behind a signature in the same encoder.
C13_Witness ==
    /\ op = "pack"
    /\ npacks = 2
    /\ prev.t = "Signature"
    /\ packed.t = "ProducerKey"
    /\ pos0 = 66
    /\ Len(enc) = 66 + 8 + 34

\* C14: no unpack reads at or beyond the end of its input: the count a
\* successful unpack returns is at most the length of the buffer, a buffer that
\* is a proper prefix of a packed value is rejected by a bounds check (a
\* too-short Uint256 or BlockSigningAuthority among them), and so is a
\* PublicKey with discriminant 2 in a 34-byte buffer.
C14_NoOverread ==
    op = "unpack" =>
        /\ res.ok => res.n <= Len(inbuf)
        /\ (Len(inbuf) < Len(enc) /\ inbuf = Take(enc, Len(inbuf))) => ~res.ok
        /\ (ty = "PublicKey" /\ Len(inbuf) = 34 /\ inbuf[1] = 2) => ~res.ok
        /\ ~res.ok => res.n = 0

\* A 34-byte buffer with discriminant 2 was handed to PublicKey.unpack.
C14_Witness ==
    /\ op = "unpack"
    /\ ty = "PublicKey"
    /\ Len(inbuf) = 34
    /\ inbuf[1] = 2
    /\ ~res.ok

\* C15: a successful unpack of a PublicKey or a BlockSigningAuthority leaves in
\* self the variant that the discriminant byte selects, and the same outcome
\* whatever variant and contents self held before the call.
C15_UnionIndependent ==
    (op = "unpack" /\ ty \in {"PublicKey", "BlockSigningAuthority"} /\ res.ok) =>
        /\ \A other \in Values(ty) : Unpack(ty, other, inbuf) = res
        /\ ty = "PublicKey" => res.self.tag = <<"K1", "R1", "WebAuth">>[inbuf[1] + 1]
        /\ ty = "BlockSigningAuthority" => (res.self.tag = "V0" /\ inbuf[1] = 0)

\* A self holding a WebAuthn key decoded a buffer with discriminant 0 and holds
\* a K1 key.
C15_Witness ==
    /\ op = "unpack"
    /\ ty = "PublicKey"
    /\ self0.tag = "WebAuth"
    /\ self0.v.rpid = <<120>>
    /\ Len(inbuf) >= 34
    /\ inbuf[1] = 0
    /\ res.ok
    /\ res.self.tag = "K1"

\* C16: swap returns the two limbs of self in exchanged order, so swapping
\* twice gives the value back; pack writes limb 0 before limb 1, so the packed
\* bytes of swap(x) are the two 16-byte halves of the packed bytes of x
\* exchanged.
C16_Swap ==
    /\ op = "swap" =>
          /\ obj.data[1] = self0.data[2]
          /\ obj.data[2] = self0.data[1]
          /\ Uint256_swap(obj) = self0
          /\ Uint256_swap(Uint256_swap(self0)) = self0
    /\ (op = "pack" /\ ty = "Uint256") =>
          /\ enc = LimbsToBytes(obj.data[1]) \o LimbsToBytes(obj.data[2])
          /\ enc = Drop(BytesOf(ty, Uint256_swap(obj)), 16)
                      \o Take(BytesOf(ty, Uint256_swap(obj)), 16)

\* A value with different limbs was swapped and the result packed.
C16_Witness ==
    /\ op = "pack"
    /\ ty = "Uint256"
    /\ rounds = 0
    /\ self0 # obj
    /\ self0 = Uint256_swap(obj)
    /\ SubSeq(enc, 1, 16) = LimbsToBytes(self0.data[2])

\* C17: get_info (parse_ret), push_actions (parse_ret2) and push_action return
\* Ok(value) exactly when the call succeeded, the reply is JSON and the JSON has
\* no top-level "except" key; a reply with that key gives Err with json set and
\* error_string None, a transport or parse failure gives Err with json None and
\* error_string set.
C17_ParseRet ==
    result.op # "" =>
        LET json == result.reply.rpc = "Ok"
                        /\ result.reply.text \in
                              {"{}", "{\"except\":{\"stack\":[]}}", "{\"except\":null}",
                               "{\"a\":{\"except\":1}}", "[\"except\"]", "\"except\""}
            except == result.reply.text \in {"{\"except\":{\"stack\":[]}}", "{\"except\":null}"}
        IN /\ result.r.ok <=> (json /\ ~except)
           /\ result.r.ok => result.r = Ok(result.reply.text)
           /\ (json /\ except) => result.r = Err(result.reply.text, "None")
           /\ ~json => result.r = Err("None", "Some")

\* get_info got a reply whose "except" key holds null.
C17_Witness ==
    /\ result.op = "get_info"
    /\ result.reply.text = "{\"except\":null}"
    /\ ~result.r.ok
    /\ result.r.json # "None"
    /\ \E t \in Threads : thr[t].pc = "return"

\* C18: every guard handed out by get_chain_tester_client or get_vm_api_client
\* holds a connected client; a connection is opened only while the Option is
\* None, so at most one is opened between two closes.
C18_Connected ==
    [][/\ \A t \in Threads :
             /\ thr'[t].pc \in {"call", "return"} /\ Held(t, "CHAIN_TESTER_CLIENT")'
                   => client' = "Some"
             /\ thr'[t].pc = "guard" => vm'.vm_api_client = "Some"
       /\ opens'.client > opens.client => client = "None"
       /\ opens'.vm > opens.vm => vm.vm_api_client = "None"
       /\ opens'.client <= 1
       /\ opens'.vm <= 1
       /\ (client = "None" /\ client' = "Some") => opens'.client = 1]_vars

\* A thread holds the guard of a connected client while the other is about to
\* close it.
C18_Witness ==
    /\ thr[1].pc = "call"
    /\ thr[1].op = "get_chain_tester_client"
    /\ client = "Some"
    /\ vm.vm_api_client = "Some"
    /\ opens = [client |-> 1, vm |-> 1]
    /\ thr[2].pc = "close_chain_tester_client"

\* C19: the apply map holds an entry for the id of every live ChainTester
\* (created by new or new_ex, not yet freed or dropped), so set_native_apply
\* finds the entry; free removes the entry; within an entry a contract is
\* mapped exactly when the last set_native_apply for it passed Some.
C19_ApplyMap ==
    /\ \A i \in Ids : testers[i].st = "live" => applys[i].present
    /\ \A t \in Threads :
          (thr[t].pc = "set_native_apply" /\ testers[thr[t].id].st = "live")
              => applys[thr[t].id].present
    /\ \A i \in Ids : testers[i].st \in {"freed", "gone"} => ~applys[i].present
    /\ \A i \in Ids : applys[i].present => applys[i].map = testers[i].some


\* The position of a mutex in the order in which set_native_apply,
\* enable_debug_contract and ChainTesterClient::init take them.
Rank(m) ==
    CASE m = "CHAIN_TESTER_APPLYS" -> 1
      [] m = "CHAIN_TESTER_CLIENT" -> 2
      [] m = "VM_API_CLIENT" -> 3

\* The mutex whose lock() the thread is about to call, "" when it is not at one.
Wants(t) ==
    CASE thr[t].pc \in {"insert", "remove", "set_native_apply"} -> "CHAIN_TESTER_APPLYS"
      [] thr[t].pc \in {"get_chain_tester_client", "close_chain_tester_client"}
            -> "CHAIN_TESTER_CLIENT"
      [] thr[t].pc \in {"init_vm_api_client", "get_vm_api_client", "close_vm_api_client"}
            -> "VM_API_CLIENT"
      [] OTHER -> ""

C21_DerefMutInApply ==
    /\ [](\A t \in Threads :
             thr[t].pc = "vm_request"
                 => vm.in_apply /\ vm.vm_api_client = "Some" /\ Held(t, "VM_API_CLIENT"))
    /\ [][\A t \in Threads :
             (/\ thr[t].pc = "guard"
              /\ thr[t].op = "get_vm_api_client"
              /\ ~vm.in_apply
              /\ thr'[t].pc \notin {"guard", "idle"})
                 => \/ thr'[t].pc = "unwind" /\ "VM_API_CLIENT" \in poisoned'
                    \/ thr'[t].pc = "aborted"]_vars

\* A thread was handed the guard of the connected client and has panicked in
\* deref_mut with in_apply false.
C21_Witness ==
    \E t \in Threads :
        /\ thr[t].pc = "unwind"
        /\ thr[t].held = <<>>
        /\ "VM_API_CLIENT" \in poisoned
        /\ vm.vm_api_client = "Some"
        /\ ~vm.in_apply

\* C22: new_vm_api_client always terminates: it calls c.open at most 11 times,
\* leaves the loop for the building of the client at the first success, and
\* panics on the 11th consecutive failure, so that the client is never built
\* on a channel that was not opened.
C22_OpenTerminates ==
    /\ [](\A t \in Threads :
             /\ thr[t].tries <= LastTry + 1
             /\ thr[t].pc = "open" => ~thr[t].opened /\ thr[t].tries = thr[t].i
             /\ thr[t].pc \in {"split", "Ok", "Err"} => thr[t].opened)
    /\ [][\A t \in Threads :
             (thr[t].pc = "open" /\ thr'[t] # thr[t])
                 => \/ thr'[t].pc = "split" /\ thr'[t].opened
                       /\ thr'[t].tries = thr[t].tries + 1
                    \/ thr'[t].pc = "open" /\ thr[t].i < LastTry
                       /\ thr'[t].tries = thr[t].tries + 1
                    \/ thr'[t].pc = "unwind" /\ thr[t].tries = LastTry]_vars
    /\ \A t \in Threads :
          (thr[t].op = "new_vm_api_client" /\ thr[t].pc \in {"open", "split"})
              ~> (thr[t].pc \notin {"open", "split"})

\* One thread has had ten failures and a success in the 11th call of c.open and
\* builds the client, while the other has panicked on its 11th failure.
C22_Witness ==
    \E t, u \in Threads :
        /\ thr[t].pc = "split"
        /\ thr[t].tries = LastTry + 1
        /\ thr[t].opened
        /\ thr[u].pc \in {"unwind", "dead"}

====
